---- MODULE Spec2Model ----
(***************************************************************************)
(* Hierarchical indexing: the retry controllers                            *)
(* (services/exponential_backoff.py, utils/exponential_backoff.py), the    *)
(* batched summarization of core/document_processor.py, the vector store   *)
(* manager of core/vector_store_manager.py and the retriever of            *)
(* core/hierarchical_retriever.py, as state machines.                      *)
(*                                                                         *)
(* The specifications share the operators that model the code:             *)
(*   RetrySpec    one retry_with_exponential_backoff call, for every       *)
(*                max_retries up to MaxRetriesBound, with the invocations  *)
(*                and sleeps the caller observes logged in obs;            *)
(*   UtilsSpec    the same call of the utils variant, next to a services   *)
(*                call that gets the same outcomes;                        *)
(*   Spec         one get_or_create_vector_stores call: existence check,   *)
(*                load or document load, batched concurrent summarization  *)
(*                (max_retries = 5 per page), split, build and save;       *)
(*   FairSpec     the call of Spec on smaller documents, with progress;    *)
(*   SessionSpec  such calls one after the other, for two documents, over  *)
(*                every state of the two persisted locations;              *)
(*   LoadSpec     one load_and_process_document call, on a PDF or a text;  *)
(*   RetrieveSpec one retrieve call over every pair of small indexes.      *)
(* Durations are in milliseconds.                                          *)
(***************************************************************************)
EXTENDS Integers, Sequences, FiniteSets, TLC

VARIABLES
    retry,        \* RetrySpec: the controller of the one call under test
    obs,          \* RetrySpec: what the operation and the clock observed
    pc,           \* Spec: position of the get_or_create_vector_stores call
    disk,         \* Spec: the two persisted index locations
    path,         \* Spec: the path argument of the call
    documents,    \* Spec: the loaded text units
    i,            \* Spec: loop variable of _create_document_summaries
    task,         \* Spec: the _summarize_doc tasks of the batch being gathered
    summaries,    \* Spec: the accumulating list of _create_document_summaries
    detailed_chunks, \* Spec: the chunks of _split_into_chunks
    stores,       \* Spec: the two indexes built in memory
    log,          \* Spec: what a run did, for the properties (see NoLog)
    rateLimited,  \* Spec: the pages the provider has answered RateLimitError
    result,       \* Spec: what the call returned or raised
    twin,         \* UtilsSpec: the services controller given the same outcomes
    is_string,    \* LoadSpec: the is_string argument of load_and_process_document
    disk0,        \* the persisted index locations when the current call began
    succeeded,    \* SessionSpec: an earlier call of the session returned
    query,        \* RetrieveSpec: the arguments of retrieve
    retrieved     \* RetrieveSpec: what retrieve returned

vars == <<retry, obs, pc, disk, path, documents, i, task, summaries,
          detailed_chunks, stores, log, rateLimited, result, twin, is_string,
          disk0, succeeded, query, retrieved>>

pipeVars == <<pc, disk, path, documents, i, task, summaries, detailed_chunks,
              stores, log, rateLimited, result, is_string, disk0, succeeded,
              query, retrieved>>

\* The variables no step of the ingestion changes.
otherVars == <<retry, obs, twin, is_string, succeeded, query, retrieved>>

(***************************************************************************)
(* Bounds of the model.                                                    *)
(***************************************************************************)
\* RetrySpec tries every max_retries in -1..MaxRetriesBound.
MaxRetriesBound == 6
\* Spec loads documents of 0..MaxDocs text units.
MaxDocs == 12
\* SessionSpec and LoadSpec load documents of 0..MaxFewDocs text units.
MaxFewDocs == 2
\* FairSpec loads documents of 0..MaxFairDocs text units.
MaxFairDocs == 6
\* RetrieveSpec: each index holds up to MaxIndexLen entries, and k_summaries
\* and k_chunks are in 0..MaxK.
MaxIndexLen == 2
MaxK == 2
\* Spec: the provider answers RateLimitError to at most this many pages of
\* a run (to each of them any number of times).
MaxLimitedPages == 1

(***************************************************************************)
(* Program constants.                                                      *)
(***************************************************************************)
\* retry_with_exponential_backoff(coroutine_factory, max_retries=5)
DefaultMaxRetries == 5
\* batch_size = 5
batch_size == 5
\* load_and_process_document(path, chunk_size=1000, chunk_overlap=200)
chunk_size == 1000
chunk_overlap == 200

RECURSIVE Pow2(_)
Pow2(n) == IF n <= 0 THEN 1 ELSE 2 * Pow2(n - 1)

\* random.uniform(0, 1): both ends and an inner point, in milliseconds.
JitterMs == {0, 500, 1000}

NoErr == [kind |-> "none", call |-> 0]
NoValue == <<"none">>

(***************************************************************************)
(* services/exponential_backoff.py                                         *)
(***************************************************************************)
\* wait_time = (2**attempt) + random.uniform(0, 1)
exponential_backoff_linear(attempt, jitter) == 2 * attempt * 1000 + jitter
exponential_backoff(attempt, jitter) == Pow2(attempt) * 1000 + jitter

\* The state of one retry_with_exponential_backoff call before it runs.
\*   attempt   the loop variable
\*   created   coroutine objects the factory has made
\*   awaited   the coroutine objects awaited so far
\*   attempts  loop iterations entered
\*   started   provider calls started
NewCall(max_retries) ==
    [pc |-> "start", attempt |-> 0, max_retries |-> max_retries,
     created |-> 0, awaited |-> {}, attempts |-> 0, started |-> 0,
     value |-> NoValue, err |-> NoErr]

\* lambda: summary_chain.ainvoke([doc]): every call makes a new coroutine
\* object; objects are numbered in the order of their creation.
coroutine_factory_reuse(c) == IF c.created = 0 THEN 1 ELSE c.created
coroutine_factory(c) == c.created + 1

Raise(c, e) == [c EXCEPT !.pc = "raised", !.err = e]

\* The last attempt re-raises: if attempt == max_retries - 1: raise e
last_attempt_off_by_one(c) == c.attempt = c.max_retries
last_attempt(c) == c.attempt = c.max_retries - 1

\* One iteration of: for attempt in range(max_retries), up to the await of
\* the coroutine the factory returned.  Awaiting a coroutine object a second
\* time raises RuntimeError, which is no RateLimitError and propagates.
\* After the loop: raise Exception("Max retries reached").
Attempt(c) ==
    IF c.attempt >= c.max_retries
    THEN Raise(c, [kind |-> "MaxRetriesReached", call |-> c.started])
    ELSE LET co == coroutine_factory(c)
             made == IF co > c.created THEN co ELSE c.created
             entered == [c EXCEPT !.attempts = @ + 1, !.created = made]
         IN  IF co \in c.awaited
             THEN Raise(entered, [kind |-> "RuntimeError", call |-> c.started])
             ELSE [entered EXCEPT !.pc = "call", !.awaited = @ \cup {co},
                                  !.started = @ + 1]

\* return await coroutine_factory(): the awaited call returned v.
CallReturns(c, v) == [c EXCEPT !.pc = "done", !.value = v]

\* The awaited call raised e.  except RateLimitError as e: re-raise on the
\* last attempt, else await exponential_backoff(attempt); anything else is
\* not caught.
CallRaises_always_sleep(c, e) ==
    IF e.kind = "RateLimitError" THEN [c EXCEPT !.pc = "sleep"] ELSE Raise(c, e)
CallRaises_catch_all(c, e) ==
    IF last_attempt(c) THEN Raise(c, e) ELSE [c EXCEPT !.pc = "sleep"]
CallRaises(c, e) ==
    IF e.kind = "RateLimitError"
    THEN IF last_attempt(c) THEN Raise(c, e) ELSE [c EXCEPT !.pc = "sleep"]
    ELSE Raise(c, e)

\* asyncio.sleep(wait_time) is over: the next iteration of the loop.
SleepElapses_same_attempt(c) == Attempt(c)
SleepElapses(c) == Attempt([c EXCEPT !.attempt = @ + 1])

\* What the provider can answer to call number k.
ProviderErrors(k) ==
    {[kind |-> "RateLimitError", call |-> k], [kind |-> "APIError", call |-> k]}

(***************************************************************************)
(* utils/exponential_backoff.py                                            *)
(***************************************************************************)
\* retry_with_exponential_backoff(coroutine, max_retries): the caller made
\* the one coroutine object (number 1) before the call.
NewUtilsCall(max_retries) == [NewCall(max_retries) EXCEPT !.created = 1]

\* One iteration of: for attempt in range(max_retries), up to
\* return await coroutine, which awaits that one object on every attempt.
UtilsAttempt(c) ==
    IF c.attempt >= c.max_retries
    THEN Raise(c, [kind |-> "MaxRetriesReached", call |-> c.started])
    ELSE LET entered == [c EXCEPT !.attempts = @ + 1]
         IN  IF 1 \in c.awaited
             THEN Raise(entered, [kind |-> "RuntimeError", call |-> c.started])
             ELSE [entered EXCEPT !.pc = "call", !.awaited = @ \cup {1},
                                  !.started = @ + 1]

\* except RateLimitError as e: raise e on the last attempt, else sleep.
UtilsCallRaises(c, e) ==
    IF e.kind = "RateLimitError"
    THEN IF c.attempt = c.max_retries - 1 THEN Raise(c, e)
         ELSE [c EXCEPT !.pc = "sleep"]
    ELSE Raise(c, e)

\* The sleep is over: the next iteration of the loop.
UtilsSleepElapses(c) == UtilsAttempt([c EXCEPT !.attempt = @ + 1])

(***************************************************************************)
(* core/document_processor.py                                              *)
(***************************************************************************)
Paths == {"book.pdf"}

\* PyPDFLoader(path).load(): one Document per page, pages numbered from 0.
load_documents(p, n) ==
    [k \in 1..n |-> [page_content |-> <<"text", k>>,
                     metadata |-> [source |-> p, page |-> k - 1]]]

\* RecursiveCharacterTextSplitter(...).create_documents([text]): one
\* Document per piece of the text, with empty metadata.
create_documents(text, n) ==
    [k \in 1..n |-> [page_content |-> <<"text", k>>, metadata |-> <<>>]]

\* total_batches = len // batch_size + (1 if len % batch_size != 0 else 0)
total_batches(n) ==
    (n \div batch_size) + (IF n % batch_size # 0 THEN 1 ELSE 0)

Min(a, b) == IF a <= b THEN a ELSE b

\* batch = documents[i: i + batch_size], as the indices of its documents
\* (Python's i is 0-based: the slice holds documents i+1 .. i+batch_size
\* of the 1-based sequence, cut at its end).
batch_all_at_once(docs, lo) == (lo + 1)..Len(docs)
batch_one_short(docs, lo) == (lo + 1)..Min(lo + batch_size - 1, Len(docs))
batch(docs, lo) == (lo + 1)..Min(lo + batch_size, Len(docs))

\* What summary_chain.ainvoke([doc]) returns when it succeeds.
ainvoke(doc) == [output_text |-> <<"summary of", doc.page_content>>]

\* _summarize_doc: the summary Document made of the chain's output.
summarize_doc_first_page(doc, output, p) ==
    [page_content |-> output.output_text,
     metadata |-> [source |-> p, page |-> 0, summary |-> TRUE]]
summarize_doc(doc, output, p) ==
    [page_content |-> output.output_text,
     metadata |-> [source |-> p, page |-> doc.metadata.page, summary |-> TRUE]]

\* _summarize_doc after summarize_document returned: building the summary
\* Document reads doc.metadata["page"], a KeyError when the key is missing.
summary_document(c, doc) ==
    IF "page" \in DOMAIN doc.metadata
    THEN c
    ELSE Raise(c, [kind |-> "KeyError", call |-> c.started])

\* asyncio.gather is done when every awaitable of the batch has returned.
gather_done_first_completed(tasks) == \E t \in DOMAIN tasks : tasks[t].pc = "done"
gather_done(tasks) == \A t \in DOMAIN tasks : tasks[t].pc = "done"

RECURSIVE InOrder(_, _)
\* The elements f[t] of a function over a set of integers, by ascending t.
InOrder(f, S) ==
    IF S = {} THEN <<>>
    ELSE LET lo == CHOOSE x \in S : \A y \in S : x <= y
         IN  <<f[lo]>> \o InOrder(f, S \ {lo})

RECURSIVE Reversed(_)
Reversed(s) == IF s = <<>> THEN <<>> ELSE Append(Reversed(Tail(s)), Head(s))

\* batch_summaries: gather's results, in the order of the awaitables passed.
batch_summaries_reversed(tasks, docs, p) ==
    Reversed(InOrder([t \in {u \in DOMAIN tasks : tasks[u].pc = "done"} |->
                         summarize_doc(docs[t], tasks[t].value, p)],
                     {u \in DOMAIN tasks : tasks[u].pc = "done"}))
batch_summaries(tasks, docs, p) ==
    InOrder([t \in {u \in DOMAIN tasks : tasks[u].pc = "done"} |->
                summarize_doc(docs[t], tasks[t].value, p)],
            {u \in DOMAIN tasks : tasks[u].pc = "done"})

\* Text lengths of the pages, in characters: empty, short and long pages.
TextLen(content) == (content[2] % 3) * 900

\* RecursiveCharacterTextSplitter: windows of size characters that overlap by
\* overlap; an empty text gives no chunk.
NumChunks(len, size, overlap) ==
    IF len = 0 THEN 0
    ELSE IF len <= size THEN 1
    ELSE 1 + ((len - size + (size - overlap) - 1)
                 \div (size - overlap))

RECURSIVE split_documents(_, _, _)
\* _split_into_chunks: the chunks of every document, each with the metadata
\* of its document.
split_documents(docs, size, overlap) ==
    IF docs = <<>> THEN <<>>
    ELSE LET d == Head(docs)
             n == NumChunks(TextLen(d.page_content), size, overlap)
         IN  [k \in 1..n |-> [page_content |-> <<d.page_content, k>>,
                              metadata |-> d.metadata]]
             \o split_documents(Tail(docs), size, overlap)

(***************************************************************************)
(* core/vector_store_manager.py                                            *)
(***************************************************************************)
Absent == [present |-> FALSE, docs |-> <<>>]
Index(docs) == [present |-> TRUE, docs |-> docs]

\* An index pair persisted by an earlier run.
OldDisk ==
    [summary_store |-> Index(<<[page_content |-> <<"summary of", <<"text", 1>>>>,
                                metadata |-> [source |-> "old.pdf", page |-> 0,
                                              summary |-> TRUE]]>>),
     detailed_store |-> Index(<<[page_content |-> <<<<"text", 1>>, 1>>,
                                 metadata |-> [source |-> "old.pdf", page |-> 0]]>>)]
EmptyDisk == [summary_store |-> Absent, detailed_store |-> Absent]

\* A location that exists without a readable index in it.
Unreadable == [present |-> TRUE, docs |-> <<>>]

\* os.path.exists(summary_store) and os.path.exists(detailed_store)
vector_stores_exist_either(d) == d.summary_store.present \/ d.detailed_store.present
vector_stores_exist(d) == d.summary_store.present /\ d.detailed_store.present

\* FAISS.load_local(location, ...): succeeds on a location that holds an
\* index (an index is never empty, see from_documents).
load_local(location) == location.present /\ location.docs # <<>>

NoResult == [kind |-> "none"]
Returned(summary_store, detailed_store) ==
    [kind |-> "returned", summary_store |-> summary_store,
     detailed_store |-> detailed_store]
Failed(e, page) == [kind |-> "raised", err |-> e, page |-> page]

\* FAISS.from_documents(docs, embeddings): an index over the documents.
\* It cannot be built over an empty list.
from_documents(docs) == Index(docs)

NoStores == [summary_store |-> Absent, detailed_store |-> Absent]
\* The observation of a run: the batches issued, the pauses that elapsed, the
\* provider calls started, and whether some page's call returned while the
\* call of an earlier page of its batch was still pending.
NoLog == [batches |-> <<>>, pauses |-> 0, calls |-> 0, reordered |-> FALSE]

(***************************************************************************)
(* core/hierarchical_retriever.py                                          *)
(***************************************************************************)
\* The embedding of a text or of a query is a point of a line, and the
\* distance of an entry to the query is the distance of the two points.
Distance(q, doc) ==
    IF doc.page_content >= q THEN doc.page_content - q ELSE q - doc.page_content

RECURSIVE Nearest(_, _, _, _)
\* The k entries of docs nearest to q among those at the positions S, nearest
\* first, entries at the same distance in the order of their insertion.
Nearest(docs, S, q, k) ==
    IF k <= 0 \/ S = {} THEN <<>>
    ELSE LET b == CHOOSE x \in S : \A y \in S :
                      \/ Distance(q, docs[x]) < Distance(q, docs[y])
                      \/ Distance(q, docs[x]) = Distance(q, docs[y]) /\ x <= y
         IN  <<docs[b]>> \o Nearest(docs, S \ {b}, q, k - 1)

\* vectorstore.similarity_search(query, k=k, filter=filter): up to k entries
\* of those whose metadata pass the filter, most similar first.  The filter
\* is given by its verdict on the metadata of each entry: filter[x] for the
\* entry at position x.
similarity_search(vectorstore, q, k, filter) ==
    Nearest(vectorstore.docs, {x \in 1..Len(vectorstore.docs) : filter[x]}, q, k)

no_filter(metadata) == TRUE

\* page_filter = lambda metadata: metadata["page"] == page_number
page_filter_any(page_number, metadata) == TRUE
page_filter(page_number, metadata) == metadata.page = page_number

RECURSIVE Unique(_, _)
\* The items that are not in seen, each once.
Unique(seen, items) ==
    IF items = <<>> THEN <<>>
    ELSE IF \E k \in 1..Len(seen) : seen[k] = Head(items)
         THEN Unique(seen, Tail(items))
         ELSE <<Head(items)>> \o Unique(Append(seen, Head(items)), Tail(items))

\* relevant_chunks.extend(page_chunks)
extend_unique(relevant_chunks, page_chunks) ==
    relevant_chunks \o Unique(relevant_chunks, page_chunks)
extend(relevant_chunks, page_chunks) == relevant_chunks \o page_chunks

RECURSIVE for_summary_in(_, _, _, _, _)
\* for summary in top_summaries: the chunks of the summary's page are
\* searched with the filter made in this iteration and appended.
for_summary_in(top_summaries, relevant_chunks, detailed_vectorstore, q, k_chunks) ==
    IF top_summaries = <<>> THEN relevant_chunks
    ELSE LET summary == Head(top_summaries)
             page_number == summary.metadata.page
             page_chunks ==
                 similarity_search(detailed_vectorstore, q, k_chunks,
                     [x \in 1..Len(detailed_vectorstore.docs) |->
                         page_filter(page_number,
                                     detailed_vectorstore.docs[x].metadata)])
         IN  for_summary_in(Tail(top_summaries),
                            extend(relevant_chunks, page_chunks),
                            detailed_vectorstore, q, k_chunks)

\* HierarchicalRetriever.retrieve(query, k_summaries, k_chunks)
retrieve(summary_vectorstore, detailed_vectorstore, q, k_summaries, k_chunks) ==
    LET top_summaries ==
            similarity_search(summary_vectorstore, q, k_summaries,
                [x \in 1..Len(summary_vectorstore.docs) |->
                    no_filter(summary_vectorstore.docs[x].metadata)])
    IN  for_summary_in(top_summaries, <<>>, detailed_vectorstore, q, k_chunks)

(***************************************************************************)
(* RetrySpec: one call of retry_with_exponential_backoff.                  *)
(***************************************************************************)
Values == {<<"v1">>, <<"v2">>}

Unused == [pc |-> "unused"]
NoQuery == [q |-> 0, k_summaries |-> 0, k_chunks |-> 0]
NoObs == [outcomes |-> <<>>, sleeps |-> <<>>, value |-> NoValue]

RetryInit ==
    /\ retry \in {NewCall(m) : m \in (-1)..MaxRetriesBound}
    /\ obs = NoObs
    /\ pc = "unused"
    /\ disk = EmptyDisk
    /\ path = "none"
    /\ documents = <<>>
    /\ i = 0
    /\ task = <<>>
    /\ summaries = <<>>
    /\ detailed_chunks = <<>>
    /\ stores = NoStores
    /\ log = NoLog
    /\ rateLimited = {}
    /\ result = NoResult
    /\ twin = Unused
    /\ is_string = FALSE
    /\ disk0 = disk
    /\ succeeded = FALSE
    /\ query = NoQuery
    /\ retrieved = <<>>

\* The call is started and runs to its first await.
RetryStart ==
    /\ retry.pc = "start"
    /\ retry' = Attempt(retry)
    /\ UNCHANGED obs
    /\ UNCHANGED <<twin, pipeVars>>

\* The operation returns a value.
RetryOperationReturns ==
    /\ retry.pc = "call"
    /\ \E v \in Values :
        /\ retry' = CallReturns(retry, v)
        /\ obs' = [obs EXCEPT !.outcomes = Append(@, "ok"), !.value = v]
    /\ UNCHANGED <<twin, pipeVars>>

\* The operation fails; the controller sleeps exponential_backoff(attempt),
\* or raises.
RetryOperationRaises ==
    /\ retry.pc = "call"
    /\ \E e \in ProviderErrors(retry.started), j \in JitterMs :
        /\ retry' = CallRaises(retry, e)
        /\ obs' = [obs EXCEPT
                     !.outcomes = Append(@, e.kind),
                     !.sleeps = IF retry'.pc = "sleep"
                                THEN Append(@, exponential_backoff(retry.attempt, j))
                                ELSE @]
    /\ UNCHANGED <<twin, pipeVars>>

\* The backoff sleep is over.
RetrySleepElapses ==
    /\ retry.pc = "sleep"
    /\ retry' = SleepElapses(retry)
    /\ UNCHANGED obs
    /\ UNCHANGED <<twin, pipeVars>>

RetryNext ==
    \/ RetryStart
    \/ RetryOperationReturns
    \/ RetryOperationRaises
    \/ RetrySleepElapses

RetrySpec == RetryInit /\ [][RetryNext]_vars

(***************************************************************************)
(* UtilsSpec: one call of the retry_with_exponential_backoff of            *)
(* utils/exponential_backoff.py (retry), and next to it one call of the    *)
(* services one (twin) whose invocations get the same outcomes: outcome    *)
(* number k goes to invocation number k of each.                           *)
(***************************************************************************)
UtilsInit ==
    /\ \E m \in (-1)..MaxRetriesBound :
          /\ retry = NewUtilsCall(m)
          /\ twin = NewCall(m)
    /\ obs = NoObs
    /\ pc = "unused"
    /\ disk = EmptyDisk
    /\ path = "none"
    /\ documents = <<>>
    /\ i = 0
    /\ task = <<>>
    /\ summaries = <<>>
    /\ detailed_chunks = <<>>
    /\ stores = NoStores
    /\ log = NoLog
    /\ rateLimited = {}
    /\ result = NoResult
    /\ is_string = FALSE
    /\ disk0 = disk
    /\ succeeded = FALSE
    /\ query = NoQuery
    /\ retrieved = <<>>

\* Both calls are started and run to their first await.
UtilsStart ==
    /\ twin.pc = "start"
    /\ retry' = UtilsAttempt(retry)
    /\ twin' = Attempt(twin)
    /\ UNCHANGED <<obs, pipeVars>>

\* The operation returns a value.
UtilsOperationReturns ==
    /\ twin.pc = "call"
    /\ \E v \in Values :
        /\ twin' = CallReturns(twin, v)
        /\ retry' = IF retry.pc = "call" THEN CallReturns(retry, v) ELSE retry
        /\ obs' = [obs EXCEPT !.outcomes = Append(@, "ok"), !.value = v]
    /\ UNCHANGED pipeVars

\* The operation fails.
UtilsOperationRaises ==
    /\ twin.pc = "call"
    /\ \E e \in ProviderErrors(twin.started), j \in JitterMs :
        /\ twin' = CallRaises(twin, e)
        /\ retry' = IF retry.pc = "call" THEN UtilsCallRaises(retry, e) ELSE retry
        /\ obs' = [obs EXCEPT
                     !.outcomes = Append(@, e.kind),
                     !.sleeps = IF twin'.pc = "sleep"
                                THEN Append(@, exponential_backoff(twin.attempt, j))
                                ELSE @]
    /\ UNCHANGED pipeVars

\* The backoff sleeps are over.
UtilsSleepsElapse ==
    /\ twin.pc = "sleep"
    /\ twin' = SleepElapses(twin)
    /\ retry' = IF retry.pc = "sleep" THEN UtilsSleepElapses(retry) ELSE retry
    /\ UNCHANGED <<obs, pipeVars>>

UtilsNext ==
    \/ UtilsStart
    \/ UtilsOperationReturns
    \/ UtilsOperationRaises
    \/ UtilsSleepsElapse

UtilsSpec == UtilsInit /\ [][UtilsNext]_vars

(***************************************************************************)
(* Spec: one call of get_or_create_vector_stores.                          *)
(***************************************************************************)
Init ==
    /\ retry = Unused
    /\ obs = NoObs
    /\ pc = "idle"
    /\ disk \in {EmptyDisk, OldDisk}
    /\ path = "none"
    /\ documents = <<>>
    /\ i = 0
    /\ task = <<>>
    /\ summaries = <<>>
    /\ detailed_chunks = <<>>
    /\ stores = NoStores
    /\ log = NoLog
    /\ rateLimited = {}
    /\ result = NoResult
    /\ twin = Unused
    /\ is_string = FALSE
    /\ disk0 = disk
    /\ succeeded = FALSE
    /\ query = NoQuery
    /\ retrieved = <<>>

\* get_or_create_vector_stores(p): when both locations exist,
\* _load_vector_stores loads the two indexes and returns them, or the
\* failure of either load leaves the call; else _create_vector_stores(p)
\* starts.  Neither the check nor the load looks at p.
GetOrCreate(p) ==
    /\ pc = "idle"
    /\ path' = p
    /\ disk0' = disk
    /\ IF vector_stores_exist(disk)
       THEN IF load_local(disk.summary_store) /\ load_local(disk.detailed_store)
            THEN /\ pc' = "returned"
                 /\ result' = Returned(disk.summary_store, disk.detailed_store)
            ELSE /\ pc' = "raised"
                 /\ result' = Failed([kind |-> "LoadIndexFailure", call |-> 0], -1)
       ELSE /\ pc' = "load_documents"
            /\ UNCHANGED result
    /\ UNCHANGED <<otherVars, disk, documents, i, task, summaries,
                   detailed_chunks, stores, log, rateLimited>>

get_or_create_vector_stores == \E p \in Paths : GetOrCreate(p)

\* _load_documents: the PDF loader returns the pages or fails; with
\* is_string the splitter returns the pieces of the text.  counts are the
\* numbers of text units tried.
LoadDocumentsOf(counts) ==
    /\ pc = "load_documents"
    /\ \/ \E n \in counts :
            /\ documents' = IF is_string THEN create_documents(path, n)
                                         ELSE load_documents(path, n)
            /\ pc' = "loop"
            /\ UNCHANGED result
       \/ /\ pc' = "raised"
          /\ result' = Failed([kind |-> "LoadFailure", call |-> 0], -1)
          /\ UNCHANGED documents
    /\ i' = 0
    /\ summaries' = <<>>
    /\ UNCHANGED <<otherVars, disk0, disk, path, task, detailed_chunks,
                   stores, log, rateLimited>>

LoadDocuments == LoadDocumentsOf(0..MaxDocs)

\* for i in range(0, len(documents), batch_size): the next batch is handed
\* to asyncio.gather and each of its tasks runs to its provider call.
StartBatch ==
    /\ pc = "loop"
    /\ i < Len(documents)
    /\ LET b == batch(documents, i)
       IN  /\ task' = [t \in b |-> Attempt(NewCall(DefaultMaxRetries))]
           /\ log' = [log EXCEPT !.batches = Append(@, b),
                                 !.calls = @ + Cardinality(b)]
    /\ pc' = "gather"
    /\ UNCHANGED <<otherVars, disk0, disk, path, documents, i, summaries,
                   detailed_chunks, stores, rateLimited, result>>

\* The loop is over: return summaries.
SummariesReturned ==
    /\ pc = "loop"
    /\ i >= Len(documents)
    /\ pc' = "split"
    /\ UNCHANGED <<otherVars, disk0, disk, path, documents, i, task, summaries,
                   detailed_chunks, stores, log, rateLimited, result>>

\* A task of the batch moved to state c.  An exception leaving the task of
\* text unit t (the t-1 of Python's numbering, which is its page in a PDF) is
\* raised by gather into _create_document_summaries, which nothing catches
\* up to the caller of get_or_create_vector_stores; the other tasks of the
\* batch are not resumed after that.
TaskMoves_return_exceptions(t, c) ==
    /\ task' = [task EXCEPT ![t] = c]
    /\ UNCHANGED <<pc, result>>
TaskMoves(t, c) ==
    IF c.pc = "raised"
    THEN /\ task' = [u \in {t} |-> c]
         /\ pc' = "raised"
         /\ result' = Failed(c.err, t - 1)
    ELSE /\ task' = [task EXCEPT ![t] = c]
         /\ UNCHANGED <<pc, result>>

\* The provider answers the call of task t with a summary.
ProviderReturns(t) ==
    /\ pc = "gather"
    /\ task[t].pc = "call"
    /\ TaskMoves(t, summary_document(CallReturns(task[t], ainvoke(documents[t])),
                                     documents[t]))
    /\ log' = [log EXCEPT !.reordered =
                  @ \/ \E u \in DOMAIN task : u < t /\ task[u].pc # "done"]
    /\ UNCHANGED <<otherVars, disk0, disk, path, documents, i, summaries,
                   detailed_chunks, stores, rateLimited>>

\* The provider answers the call of task t with an error.
ProviderRaises(t) ==
    /\ pc = "gather"
    /\ task[t].pc = "call"
    /\ \E e \in ProviderErrors(task[t].started) :
        /\ e.kind = "RateLimitError" =>
              (t \in rateLimited \/ Cardinality(rateLimited) < MaxLimitedPages)
        /\ rateLimited' = IF e.kind = "RateLimitError"
                          THEN rateLimited \cup {t} ELSE rateLimited
        /\ TaskMoves(t, CallRaises(task[t], e))
    /\ UNCHANGED <<otherVars, disk0, disk, path, documents, i, summaries,
                   detailed_chunks, stores, log>>

\* The backoff sleep of task t is over: its next attempt starts.
BackoffElapses(t) ==
    /\ pc = "gather"
    /\ task[t].pc = "sleep"
    /\ LET c == SleepElapses(task[t])
       IN  /\ TaskMoves(t, c)
           /\ log' = [log EXCEPT !.calls = @ + (c.started - task[t].started)]
    /\ UNCHANGED <<otherVars, disk0, disk, path, documents, i, summaries,
                   detailed_chunks, stores, rateLimited>>

\* gather returns: summaries.extend(batch_summaries), then the pause starts.
GatherReturns ==
    /\ pc = "gather"
    /\ gather_done(task)
    /\ summaries' = summaries \o batch_summaries(task, documents, path)
    /\ task' = <<>>
    /\ pc' = "pause"
    /\ UNCHANGED <<otherVars, disk0, disk, path, documents, i, detailed_chunks,
                   stores, log, rateLimited, result>>

\* await asyncio.sleep(1) is over: the next value of the range.
PauseElapses ==
    /\ pc = "pause"
    /\ log' = [log EXCEPT !.pauses = @ + 1]
    /\ i' = i + batch_size
    /\ pc' = "loop"
    /\ UNCHANGED <<otherVars, disk0, disk, path, documents, task, summaries,
                   detailed_chunks, stores, rateLimited, result>>

\* detailed_chunks = self._split_into_chunks(documents, ...)
SplitIntoChunks ==
    /\ pc = "split"
    /\ detailed_chunks' = split_documents(documents, chunk_size, chunk_overlap)
    /\ pc' = "build"
    /\ UNCHANGED <<otherVars, disk0, disk, path, documents, i, task, summaries,
                   stores, log, rateLimited, result>>

\* summary_store / detailed_store = FAISS.from_documents(...): both indexes
\* are built, or the embedding of either list fails.
BuildVectorStores ==
    /\ pc = "build"
    /\ \/ /\ summaries # <<>>
          /\ detailed_chunks # <<>>
          /\ stores' = [summary_store |-> from_documents(summaries),
                        detailed_store |-> from_documents(detailed_chunks)]
          /\ pc' = "save_summary"
          /\ UNCHANGED result
       \/ /\ pc' = "raised"
          /\ result' = Failed([kind |-> "BuildFailure", call |-> 0], -1)
          /\ UNCHANGED stores
    /\ UNCHANGED <<otherVars, disk0, disk, path, documents, i, task, summaries,
                   detailed_chunks, log, rateLimited>>

\* summary_store.save_local("./vector_stores/summary_store")
SaveSummaryStore ==
    /\ pc = "save_summary"
    /\ \/ /\ disk' = [disk EXCEPT !.summary_store = stores.summary_store]
          /\ pc' = "save_detailed"
          /\ UNCHANGED result
       \/ /\ pc' = "raised"
          /\ result' = Failed([kind |-> "SaveFailure", call |-> 0], -1)
          /\ UNCHANGED disk
    /\ UNCHANGED <<otherVars, disk0, path, documents, i, task, summaries,
                   detailed_chunks, stores, log, rateLimited>>

\* detailed_store.save_local("./vector_stores/detailed_store"), then
\* return summary_store, detailed_store
SaveDetailedStore_unsaved ==
    /\ pc = "save_detailed"
    /\ pc' = "returned"
    /\ result' = Returned(stores.summary_store, stores.detailed_store)
    /\ UNCHANGED <<otherVars, disk0, disk, path, documents, i, task, summaries,
                   detailed_chunks, stores, log, rateLimited>>
SaveDetailedStore ==
    /\ pc = "save_detailed"
    /\ \/ /\ disk' = [disk EXCEPT !.detailed_store = stores.detailed_store]
          /\ pc' = "returned"
          /\ result' = Returned(stores.summary_store, stores.detailed_store)
       \/ /\ pc' = "raised"
          /\ result' = Failed([kind |-> "SaveFailure", call |-> 0], -1)
          /\ UNCHANGED disk
    /\ UNCHANGED <<otherVars, disk0, path, documents, i, task, summaries,
                   detailed_chunks, stores, log, rateLimited>>

Next ==
    \/ get_or_create_vector_stores
    \/ LoadDocuments
    \/ StartBatch
    \/ SummariesReturned
    \/ \E t \in DOMAIN task : ProviderReturns(t)
    \/ \E t \in DOMAIN task : ProviderRaises(t)
    \/ \E t \in DOMAIN task : BackoffElapses(t)
    \/ GatherReturns
    \/ PauseElapses
    \/ SplitIntoChunks
    \/ BuildVectorStores
    \/ SaveSummaryStore
    \/ SaveDetailedStore

Spec == Init /\ [][Next]_vars

\* FairSpec: the call of Spec on documents of 0..MaxFairDocs text units, with
\* progress: the event loop runs what is ready, every provider call is
\* answered and every sleep ends, so a step that stays possible is taken.
FairLoadDocuments == LoadDocumentsOf(0..MaxFairDocs)

FairNext ==
    \/ get_or_create_vector_stores
    \/ FairLoadDocuments
    \/ StartBatch
    \/ SummariesReturned
    \/ \E t \in DOMAIN task : ProviderReturns(t)
    \/ \E t \in DOMAIN task : ProviderRaises(t)
    \/ \E t \in DOMAIN task : BackoffElapses(t)
    \/ GatherReturns
    \/ PauseElapses
    \/ SplitIntoChunks
    \/ BuildVectorStores
    \/ SaveSummaryStore
    \/ SaveDetailedStore

FairSpec == Init /\ [][FairNext]_vars /\ WF_vars(FairNext)

(***************************************************************************)
(* SessionSpec: the calls of get_or_create_vector_stores one process makes *)
(* one after the other (app.py: initialize_stores on every query), with    *)
(* either document path, over every state the two locations can be found   *)
(* in.                                                                     *)
(***************************************************************************)
SessionPaths == {"a.pdf", "b.pdf"}

\* The two locations before the first call: none, both, exactly one of them,
\* or both with one of them holding no readable index.
SessionDisks ==
    {EmptyDisk, OldDisk,
     [OldDisk EXCEPT !.detailed_store = Absent],
     [OldDisk EXCEPT !.summary_store = Absent],
     [OldDisk EXCEPT !.detailed_store = Unreadable],
     [OldDisk EXCEPT !.summary_store = Unreadable]}

SessionInit ==
    /\ retry = Unused
    /\ obs = NoObs
    /\ pc = "idle"
    /\ disk \in SessionDisks
    /\ path = "none"
    /\ documents = <<>>
    /\ i = 0
    /\ task = <<>>
    /\ summaries = <<>>
    /\ detailed_chunks = <<>>
    /\ stores = NoStores
    /\ log = NoLog
    /\ rateLimited = {}
    /\ result = NoResult
    /\ twin = Unused
    /\ is_string = FALSE
    /\ disk0 = disk
    /\ succeeded = FALSE
    /\ query = NoQuery
    /\ retrieved = <<>>

SessionCall == \E p \in SessionPaths : GetOrCreate(p)

SessionLoadDocuments == LoadDocumentsOf(0..MaxFewDocs)

\* The call is over and the next one is made (the manager keeps nothing of
\* a call; each rebuild makes its own DocumentProcessor), over the locations
\* as the last call left them.
NextCall ==
    /\ pc \in {"returned", "raised"}
    /\ succeeded' = (succeeded \/ pc = "returned")
    /\ pc' = "idle"
    /\ path' = "none"
    /\ documents' = <<>>
    /\ i' = 0
    /\ task' = <<>>
    /\ summaries' = <<>>
    /\ detailed_chunks' = <<>>
    /\ stores' = NoStores
    /\ log' = NoLog
    /\ rateLimited' = {}
    /\ result' = NoResult
    /\ disk0' = disk
    /\ UNCHANGED <<retry, obs, twin, is_string, query, retrieved, disk>>

SessionNext ==
    \/ SessionCall
    \/ SessionLoadDocuments
    \/ StartBatch
    \/ SummariesReturned
    \/ \E t \in DOMAIN task : ProviderReturns(t)
    \/ \E t \in DOMAIN task : ProviderRaises(t)
    \/ \E t \in DOMAIN task : BackoffElapses(t)
    \/ GatherReturns
    \/ PauseElapses
    \/ SplitIntoChunks
    \/ BuildVectorStores
    \/ SaveSummaryStore
    \/ SaveDetailedStore
    \/ NextCall

SessionSpec == SessionInit /\ [][SessionNext]_vars

(***************************************************************************)
(* LoadSpec: one call of load_and_process_document, on a PDF path or, with *)
(* is_string, on a text.                                                   *)
(***************************************************************************)
\* return summaries, detailed_chunks
Processed(sums, chunks) ==
    [kind |-> "returned", summaries |-> sums, detailed_chunks |-> chunks]

LoadInit ==
    /\ retry = Unused
    /\ obs = NoObs
    /\ pc = "load_documents"
    /\ disk = EmptyDisk
    /\ is_string \in BOOLEAN
    /\ path = IF is_string THEN "a text" ELSE "book.pdf"
    /\ documents = <<>>
    /\ i = 0
    /\ task = <<>>
    /\ summaries = <<>>
    /\ detailed_chunks = <<>>
    /\ stores = NoStores
    /\ log = NoLog
    /\ rateLimited = {}
    /\ result = NoResult
    /\ twin = Unused
    /\ disk0 = disk
    /\ succeeded = FALSE
    /\ query = NoQuery
    /\ retrieved = <<>>

LoadTextUnits == LoadDocumentsOf(0..MaxFewDocs)

\* load_and_process_document returns the two lists to its caller.
ProcessReturns ==
    /\ pc = "build"
    /\ pc' = "returned"
    /\ result' = Processed(summaries, detailed_chunks)
    /\ UNCHANGED <<otherVars, disk0, disk, path, documents, i, task, summaries,
                   detailed_chunks, stores, log, rateLimited>>

LoadNext ==
    \/ LoadTextUnits
    \/ StartBatch
    \/ SummariesReturned
    \/ \E t \in DOMAIN task : ProviderReturns(t)
    \/ \E t \in DOMAIN task : ProviderRaises(t)
    \/ \E t \in DOMAIN task : BackoffElapses(t)
    \/ GatherReturns
    \/ PauseElapses
    \/ SplitIntoChunks
    \/ ProcessReturns

LoadSpec == LoadInit /\ [][LoadNext]_vars

(***************************************************************************)
(* RetrieveSpec: one call of HierarchicalRetriever.retrieve, over every    *)
(* pair of indexes of up to MaxIndexLen entries.                           *)
(***************************************************************************)
Pages == {0, 1}
\* The points of the embedding line the texts and the queries lie on.
Points == {0, 1}
Queries == {0, 1}

\* The indexes of up to MaxIndexLen entries over the given records.
IndexesOver(records) ==
    {Index(d) : d \in UNION {[1..n -> records] : n \in 0..MaxIndexLen}}

SummaryRecords ==
    {[page_content |-> e, metadata |-> [page |-> p, summary |-> TRUE]] :
        e \in Points, p \in Pages}
ChunkRecords ==
    {[page_content |-> e, metadata |-> [page |-> p]] : e \in Points, p \in Pages}

RetrieveInit ==
    /\ retry = Unused
    /\ obs = NoObs
    /\ pc = "retrieve"
    /\ disk = EmptyDisk
    /\ path = "none"
    /\ documents = <<>>
    /\ i = 0
    /\ task = <<>>
    /\ summaries = <<>>
    /\ detailed_chunks = <<>>
    /\ \E s \in IndexesOver(SummaryRecords), d \in IndexesOver(ChunkRecords) :
          stores = [summary_store |-> s, detailed_store |-> d]
    /\ log = NoLog
    /\ rateLimited = {}
    /\ result = NoResult
    /\ twin = Unused
    /\ is_string = FALSE
    /\ disk0 = disk
    /\ succeeded = FALSE
    /\ \E q \in Queries, ks \in 0..MaxK, kc \in 0..MaxK :
          query = [q |-> q, k_summaries |-> ks, k_chunks |-> kc]
    /\ retrieved = <<>>

\* HierarchicalRetriever(summary_store, detailed_store).retrieve(query, ...)
Retrieve ==
    /\ pc = "retrieve"
    /\ retrieved' = retrieve(stores.summary_store, stores.detailed_store,
                             query.q, query.k_summaries, query.k_chunks)
    /\ pc' = "retrieved"
    /\ UNCHANGED <<retry, obs, disk, path, documents, i, task, summaries,
                   detailed_chunks, stores, log, rateLimited, result, twin,
                   is_string, disk0, succeeded, query>>

RetrieveNext == Retrieve

RetrieveSpec == RetrieveInit /\ [][RetrieveNext]_vars

(***************************************************************************)
(* Properties of the retry controller (RetrySpec).                         *)
(***************************************************************************)
AllRateLimited(s) == \A k \in 1..Len(s) : s[k] = "RateLimitError"
Front(s) == SubSeq(s, 1, Len(s) - 1)
\* RateLimitError on the first m invocations, success on invocation m + 1.
TransientThenOk(s) ==
    /\ Len(s) >= 1
    /\ s[Len(s)] = "ok"
    /\ AllRateLimited(Front(s))

\* C1: when the operation signals RateLimited on its first m invocations and
\* succeeds on invocation m+1 (m < max_retries), the call returns that value
\* after exactly m+1 invocations and m sleeps, and sleep number k (k = 0..m-1)
\* lasts 2^k seconds plus a jitter of 0 to 1 second.
C1_TransientFailure ==
    (retry.pc # "unused" /\ TransientThenOk(obs.outcomes)) =>
        LET m == Len(obs.outcomes) - 1
        IN  /\ m < retry.max_retries
            /\ retry.pc = "done"
            /\ retry.value = obs.value
            /\ retry.started = m + 1
            /\ Len(obs.sleeps) = m
            /\ \A k \in 1..m :
                 /\ obs.sleeps[k] >= Pow2(k - 1) * 1000
                 /\ obs.sleeps[k] <= Pow2(k - 1) * 1000 + 1000

C1_Witness ==
    /\ retry.pc = "done"
    /\ retry.max_retries = DefaultMaxRetries
    /\ TransientThenOk(obs.outcomes)
    /\ Len(obs.sleeps) = DefaultMaxRetries - 1
    /\ obs.sleeps[4] = 8500

\* C2: when every invocation signals RateLimited and max_retries >= 1, the
\* operation is invoked exactly max_retries times, never once more, and the
\* call then raises the RateLimitError of invocation number max_retries.
C2_Exhaustion ==
    (retry.pc # "unused" /\ retry.max_retries >= 1
        /\ AllRateLimited(obs.outcomes)) =>
        /\ Len(obs.outcomes) <= retry.max_retries
        /\ retry.started <= retry.max_retries
        /\ (Len(obs.outcomes) = retry.max_retries <=> retry.pc = "raised")
        /\ retry.pc = "raised" =>
             /\ retry.started = retry.max_retries
             /\ retry.err = [kind |-> "RateLimitError",
                             call |-> retry.max_retries]

C2_Witness ==
    /\ retry.pc = "raised"
    /\ retry.max_retries = 3
    /\ obs.outcomes = <<"RateLimitError", "RateLimitError", "RateLimitError">>
    /\ Len(obs.sleeps) = 2

\* C3: an invocation that fails with anything but RateLimited is the last one:
\* the call raises that failure, with no sleep and no invocation after it.
C3_NonRetryable ==
    \A k \in 1..Len(obs.outcomes) :
        obs.outcomes[k] = "APIError" =>
            /\ k = Len(obs.outcomes)
            /\ retry.pc = "raised"
            /\ retry.err = [kind |-> "APIError", call |-> k]
            /\ retry.started = k
            /\ Len(obs.sleeps) = k - 1

C3_Witness ==
    /\ retry.pc = "raised"
    /\ obs.outcomes = <<"RateLimitError", "RateLimitError", "APIError">>
    /\ Len(obs.sleeps) = 2

\* C22: with max_retries >= 1 the call never raises "Max retries reached": it
\* ends with the value returned, the RateLimitError of the last attempt or the
\* other failure of an invocation.  "Max retries reached" is raised exactly
\* when max_retries <= 0, and then the operation was never invoked and no
\* sleep took place.
C22_MaxRetriesReached ==
    /\ retry.max_retries >= 1 =>
          /\ retry.err.kind # "MaxRetriesReached"
          /\ retry.pc = "raised" =>
                /\ retry.err.kind \in {"RateLimitError", "APIError"}
                /\ retry.err.kind = "RateLimitError" =>
                      retry.err.call = retry.max_retries
          /\ retry.pc = "done" => retry.value = obs.value
    /\ (retry.max_retries <= 0 /\ retry.pc # "start") =>
          /\ retry.pc = "raised"
          /\ retry.err.kind = "MaxRetriesReached"
          /\ retry.started = 0
          /\ obs.outcomes = <<>>
          /\ obs.sleeps = <<>>

C22_Witness ==
    /\ retry.pc = "raised"
    /\ retry.max_retries = 0
    /\ retry.err.kind = "MaxRetriesReached"
    /\ retry.attempts = 0

\* C19: the retry_with_exponential_backoff of utils retries its coroutine
\* with backoff up to max_retries attempts and ends as the services controller
\* does on the same outcomes: at every moment it is at the same point, after as
\* many invocations, with the same value returned or the same error raised.
C19_UtilsRetryEquivalence ==
    /\ retry.pc = twin.pc
    /\ retry.attempt = twin.attempt
    /\ retry.started = twin.started
    /\ retry.value = twin.value
    /\ retry.err = twin.err

(***************************************************************************)
(* Properties of the ingestion (Spec).                                     *)
(***************************************************************************)
InFlight(c) == c.pc \in {"call", "sleep"}
\* The positions of the call after _create_document_summaries has returned.
AfterSummaries == {"split", "build", "save_summary", "save_detailed"}
CeilDiv(n, d) == (n + d - 1) \div d
\* The summary record the provider's answer for text unit k makes.
SummaryOfUnit(k) ==
    [page_content |-> <<"summary of", <<"text", k>>>>,
     metadata |-> [source |-> path, page |-> k - 1, summary |-> TRUE]]

\* C4: on the summarization path every attempt of a page calls the factory
\* again and awaits the coroutine object it made: no object is awaited twice,
\* and the provider calls started for the page are as many as its attempts.
C4_FreshInvocation ==
    \A t \in DOMAIN task :
        /\ task[t].created = task[t].attempts
        /\ Cardinality(task[t].awaited) = task[t].attempts
        /\ task[t].started = task[t].attempts
        /\ task[t].pc = "call" =>
              /\ task[t].attempts = task[t].attempt + 1
              /\ task[t].created \in task[t].awaited

C4_Witness ==
    \E t \in DOMAIN task :
        /\ task[t].pc = "call"
        /\ task[t].attempt = 3
        /\ task[t].awaited = {1, 2, 3, 4}
        /\ task[t].started = 4

\* C5: summarizing N >= 1 text units takes exactly ceil(N/5) - 1 pauses, none
\* after the last batch (12 text units: 2 pauses).
C5_PausesBetweenBatches ==
    (pc \in AfterSummaries /\ Len(documents) >= 1) =>
        log.pauses = CeilDiv(Len(documents), 5) - 1

\* C6: the batches are the consecutive runs of 5 text units in document order,
\* the last one holding the remaining N mod 5 when that is not 0; after the
\* summarization there are ceil(N/5) of them, every text unit is in exactly one
\* and has exactly one summary; no text unit means no batch and no provider call.
C6_BatchPartition ==
    LET n == Len(documents)
        nb == Len(log.batches)
    IN  /\ \A b \in 1..nb :
             /\ log.batches[b] = {k \in 1..n : 5 * (b - 1) < k /\ k <= 5 * b}
             /\ Cardinality(log.batches[b]) =
                   IF b < CeilDiv(n, 5) \/ n % 5 = 0 THEN 5 ELSE n % 5
        /\ pc \in AfterSummaries =>
             /\ nb = CeilDiv(n, 5)
             /\ \A k \in 1..n :
                  Cardinality({b \in 1..nb : k \in log.batches[b]}) = 1
             /\ Len(summaries) = n
             /\ \A k \in 1..n :
                  Cardinality({s \in 1..Len(summaries) :
                                 summaries[s] = SummaryOfUnit(k)}) = 1
             /\ n = 0 => (nb = 0 /\ log.calls = 0)

C6_Witness ==
    /\ pc = "split"
    /\ Len(documents) = 12
    /\ log.batches = <<1..5, 6..10, 11..12>>

\* C7: whatever the order in which the calls of a batch complete and whichever
\* pages are retried, a summarization that succeeds gives exactly N summary
\* records, the k-th made from the k-th text unit and carrying its page.
C7_PageOrderedSummaries ==
    /\ \A k \in 1..Len(summaries) :
         /\ summaries[k].page_content = <<"summary of", documents[k].page_content>>
         /\ summaries[k].metadata.page = documents[k].metadata.page
    /\ pc \in AfterSummaries => Len(summaries) = Len(documents)
    /\ (pc = "returned" /\ documents # <<>>) =>
         /\ result.summary_store.docs = summaries
         /\ Len(summaries) = Len(documents)

C7_Witness ==
    /\ pc = "returned"
    /\ Len(documents) = 12
    /\ Len(result.summary_store.docs) = 12
    /\ log.reordered
    /\ rateLimited = {7}

\* C8: while a provider call or backoff sleep of a text unit of batch b+1 is
\* pending, every text unit of the batches up to b has its summary, the pause
\* after each of them has elapsed and no task of another batch exists; at most
\* 5 provider calls are in flight.
C8_SequentialBatches ==
    /\ \A t \in DOMAIN task :
         InFlight(task[t]) =>
            LET b == (t - 1) \div 5
            IN  /\ Len(summaries) = 5 * b
                /\ log.pauses = b
                /\ \A u \in DOMAIN task : (u - 1) \div 5 = b
    /\ Cardinality({t \in DOMAIN task : task[t].pc = "call"}) <= 5

C8_Witness ==
    /\ pc = "gather"
    /\ log.pauses = 2
    /\ DOMAIN task = {11, 12}
    /\ task[11].pc = "sleep"
    /\ task[12].pc = "call"

\* C9: while a provider call or backoff sleep of a batch is pending, the
\* summaries list holds exactly the summaries of the earlier batches, 5 for
\* each completed batch, and none of the batch in progress.
C9_AppendedBetweenBatches ==
    (pc = "gather" /\ \E t \in DOMAIN task : InFlight(task[t])) =>
        /\ Len(summaries) = 5 * (Len(log.batches) - 1)
        /\ \A k \in 1..Len(summaries) : summaries[k] = SummaryOfUnit(k)
        /\ \A k \in 1..Len(summaries), t \in DOMAIN task :
             summaries[k].metadata.page # documents[t].metadata.page

C9_Witness ==
    /\ pc = "gather"
    /\ Len(summaries) = 5
    /\ DOMAIN task = 6..10
    /\ task[6].pc = "done"
    /\ task[7].pc = "done"
    /\ task[8].pc = "sleep"

\* The retries of a page are exhausted: RateLimitError on all 5 attempts.
Exhausted(c) ==
    /\ c.pc = "raised"
    /\ c.err.kind = "RateLimitError"
    /\ c.started = DefaultMaxRetries

\* C10: when the summarization of a page exhausts its retries, the call of
\* get_or_create_vector_stores fails with that RateLimitError: the page has no
\* summary, no index is built and neither index location is written.
C10_FailClosed ==
    \A t \in DOMAIN task :
        Exhausted(task[t]) =>
            /\ pc = "raised"
            /\ result = Failed([kind |-> "RateLimitError",
                                call |-> DefaultMaxRetries],
                               documents[t].metadata.page)
            /\ \A k \in 1..Len(summaries) :
                 summaries[k].metadata.page # documents[t].metadata.page
            /\ stores = NoStores
            /\ disk = EmptyDisk

C10_Witness ==
    /\ pc = "raised"
    /\ Len(summaries) = 5
    /\ 8 \in DOMAIN task
    /\ Exhausted(task[8])
    /\ result.err.kind = "RateLimitError"
    /\ disk = EmptyDisk

\* The backoff sleeps controller c has begun.
SleepsOf(c) == c.attempt + (IF c.pc = "sleep" THEN 1 ELSE 0)

\* C21: the summarization of a document of N text units ends: at any time at
\* most 5 N provider calls have been started, at most 5 for a text unit, and
\* a text unit has slept at most 4 times; and once _create_document_summaries
\* runs, it eventually returns its summaries or raises.
C21_SummarizationTerminates ==
    /\ [](/\ log.calls <= 5 * Len(documents)
          /\ \A t \in DOMAIN task :
               /\ task[t].started <= 5
               /\ SleepsOf(task[t]) <= 4)
    /\ (pc \in {"loop", "gather", "pause"}) ~> (pc \in {"split", "raised"})

C21_Witness ==
    /\ pc = "split"
    /\ Len(documents) = 6
    /\ Len(summaries) = 6
    /\ log.calls = 10
    /\ log.pauses = 2
    /\ rateLimited = {6}

\* Every record of chunks is on the page of a record of sums.
PagesCovered(chunks, sums) ==
    \A c \in 1..Len(chunks) :
        \E k \in 1..Len(sums) : sums[k].metadata.page = chunks[c].metadata.page

\* C17: after the ingestion of a paged document has succeeded, the page of
\* every chunk record is the page of at least one summary record, in the
\* lists the processor returned and in the two indexes the call returns.
C17_PageCoverage ==
    /\ pc \in {"build", "save_summary", "save_detailed", "returned"} =>
          PagesCovered(detailed_chunks, summaries)
    /\ pc = "returned" =>
          PagesCovered(result.detailed_store.docs, result.summary_store.docs)

C17_Witness ==
    /\ pc = "returned"
    /\ Len(documents) = 12
    /\ Len(result.summary_store.docs) = 12
    /\ Len(result.detailed_store.docs) = 12
    /\ result.detailed_store.docs[12].metadata.page = 10
    /\ result.detailed_store.docs[11].metadata.page = 10

\* C18: load_and_process_document on a text (is_string) completes as it does
\* on a PDF: when the provider answers, it returns the summaries and the
\* chunks, one summary for each text unit; it fails only as a PDF's ingestion
\* can fail, on the loader or on the provider.
C18_RawTextIngestion ==
    is_string =>
        /\ pc = "raised" =>
              result.err.kind \in {"LoadFailure", "RateLimitError", "APIError"}
        /\ pc = "returned" => Len(result.summaries) = Len(documents)

(***************************************************************************)
(* Properties of the vector store manager (SessionSpec).                   *)
(***************************************************************************)
\* The two locations hold the indexes the current call built.
WrittenByThisCall ==
    /\ stores # NoStores
    /\ disk = stores
\* The call returned the indexes it built from the document at path.
RebuiltFromPath ==
    /\ documents # <<>>
    /\ stores.summary_store = Index(summaries)
    /\ stores.detailed_store = Index(detailed_chunks)
    /\ result = Returned(stores.summary_store, stores.detailed_store)
    /\ \A k \in 1..Len(summaries) : summaries[k].metadata.source = path
ExactlyOnePresent(d) == d.summary_store.present # d.detailed_store.present

\* The call took the load path: it returned without loading a document or
\* building an index, or it failed on loading an index.
LoadPathTaken ==
    \/ pc = "returned" /\ documents = <<>> /\ stores = NoStores
    \/ pc = "raised" /\ result.err.kind = "LoadIndexFailure"

\* C11: the persisted indexes count as existing exactly when both locations
\* are present: a call takes the load path if and only if it found both.  A
\* call that finds exactly one of them loads nothing: it starts the rebuild,
\* and when it returns, it returns the indexes it built from the document and
\* both locations hold them.
C11_BothOrRebuild ==
    pc # "idle" =>
        /\ LoadPathTaken <=>
               (disk0.summary_store.present /\ disk0.detailed_store.present)
        /\ ExactlyOnePresent(disk0) =>
               /\ ~LoadPathTaken
               /\ pc = "returned" => (RebuiltFromPath /\ WrittenByThisCall)

C11_Witness ==
    /\ pc = "returned"
    /\ disk0 = [OldDisk EXCEPT !.detailed_store = Absent]
    /\ Len(documents) = 2
    /\ disk = stores
    /\ disk.summary_store # OldDisk.summary_store

\* C12: once a call has returned, every later call of the session loads: it
\* loads no document, makes no provider call, builds and writes nothing, and
\* returns the two indexes the locations hold.
C12_IdempotentIngestion ==
    (succeeded /\ pc # "idle") =>
        /\ pc = "returned"
        /\ result = Returned(disk.summary_store, disk.detailed_store)
        /\ disk = disk0
        /\ documents = <<>>
        /\ log = NoLog
        /\ stores = NoStores

C12_Witness ==
    /\ succeeded
    /\ pc = "returned"
    /\ disk # OldDisk
    /\ Len(result.summary_store.docs) = 2
    /\ result.summary_store.docs[1].metadata.source = "a.pdf"

\* Both locations exist and at least one of them cannot be loaded.
UnreadableIndex(d) ==
    /\ vector_stores_exist(d)
    /\ ~(load_local(d.summary_store) /\ load_local(d.detailed_store))

\* C15: when both locations are present and loading either of them fails, the
\* call does not raise that failure: it rebuilds both indexes from the document
\* and writes them, and fails only when the document cannot be loaded either.
C15_UnreadableIndexRebuilds ==
    (pc # "idle" /\ UnreadableIndex(disk0)) =>
        /\ pc = "raised" => result.err.kind = "LoadFailure"
        /\ pc = "returned" => (RebuiltFromPath /\ WrittenByThisCall)

\* C16: a call that has ended, by returning or by failing at any step, leaves
\* the two locations as it found them or holding the two indexes it built:
\* never one location written alone, never indexes of two different runs.
C16_NoPartialPersistedState ==
    pc \in {"returned", "raised"} => (disk = disk0 \/ WrittenByThisCall)

(***************************************************************************)
(* Properties of the retrieval (RetrieveSpec).                             *)
(***************************************************************************)
\* The summaries the first stage selects.
TopSummaries ==
    Nearest(stores.summary_store.docs, 1..Len(stores.summary_store.docs),
            query.q, query.k_summaries)
\* How many elements of the sequence s satisfy metadata.page = p.
OnPage(s, p) == Cardinality({k \in 1..Len(s) : s[k].metadata.page = p})

RECURSIVE Concatenation(_)
\* The lists of a sequence of lists, one after the other.
Concatenation(lists) ==
    IF lists = <<>> THEN <<>> ELSE Head(lists) \o Concatenation(Tail(lists))

\* C13: retrieve returns at most k_summaries * k_chunks records, for every
\* k_summaries >= 0 and k_chunks >= 0; the page of every record returned is
\* the page of one of the top k_summaries summaries, and a page has at most
\* k_chunks records for each top summary of that page (each search is
\* filtered by the page of its own summary).
C13_RetrievalBound ==
    pc = "retrieved" =>
        /\ Len(retrieved) <= query.k_summaries * query.k_chunks
        /\ Len(TopSummaries) <= query.k_summaries
        /\ \A r \in 1..Len(retrieved) :
             \E t \in 1..Len(TopSummaries) :
                retrieved[r].metadata.page = TopSummaries[t].metadata.page
        /\ \A p \in Pages :
             OnPage(retrieved, p) <= query.k_chunks * OnPage(TopSummaries, p)

C13_Witness ==
    /\ pc = "retrieved"
    /\ query.k_summaries = 1
    /\ query.k_chunks = 1
    /\ Len(stores.summary_store.docs) = 2
    /\ stores.summary_store.docs[1].metadata.page = 0
    /\ stores.summary_store.docs[2].metadata.page = 1
    /\ OnPage(stores.detailed_store.docs, 1) = 2
    /\ Len(retrieved) = 1
    /\ retrieved[1].metadata.page = 1

\* C14: the result is the concatenation, in the order of the top summaries,
\* of the result of each summary's chunk search (up to k_chunks chunks of its
\* page, most similar first): nothing is reordered or removed, so the chunks
\* of a page two top summaries share come twice, and a summary whose page
\* has no chunk adds nothing and raises nothing.
C14_PlainConcatenation ==
    pc = "retrieved" =>
        retrieved =
            Concatenation([t \in 1..Len(TopSummaries) |->
                Nearest(stores.detailed_store.docs,
                        {x \in 1..Len(stores.detailed_store.docs) :
                            stores.detailed_store.docs[x].metadata.page =
                                TopSummaries[t].metadata.page},
                        query.q, query.k_chunks)])

C14_Witness ==
    /\ pc = "retrieved"
    /\ query.k_summaries = 2
    /\ query.k_chunks = 2
    /\ Len(TopSummaries) = 2
    /\ TopSummaries[1].metadata.page = 1
    /\ TopSummaries[2].metadata.page = 1
    /\ Len(retrieved) = 4
    /\ retrieved[1] = retrieved[3]
    /\ retrieved[2] = retrieved[4]
    /\ retrieved[1] # retrieved[2]

(***************************************************************************)
(* Properties across calls and paths (SessionSpec).                        *)
(***************************************************************************)
\* Every record of the index comes from the document at p.
BuiltFrom(index, p) ==
    \A k \in 1..Len(index.docs) : index.docs[k].metadata.source = p

\* C20: the indexes get_or_create_vector_stores(path) returns were built from
\* the document at path, whatever calls came before it and whatever the two
\* locations held.
C20_IndexesOfThePath ==
    pc = "returned" =>
        /\ BuiltFrom(result.summary_store, path)
        /\ BuiltFrom(result.detailed_store, path)
====
